---- MODULE Spec2Model ----
(***************************************************************************)
(* Click ingestion and real-time broadcast of the SnapURL service.         *)
(*                                                                         *)
(* The model follows services/analyticsService.js (recordClick and its     *)
(* helpers), models/Click.js (schema validation, pre-save hooks,           *)
(* isUniqueClick) and controllers/redirectController.js (handleRedirect).  *)
(* Every await of the JavaScript code is a point where another request     *)
(* may run, so every await is the end of one action.                       *)
(*                                                                         *)
(* Strings the code inspects character by character (IP addresses,         *)
(* user agents) are sequences of one-character strings.                    *)
(***************************************************************************)
EXTENDS Integers, Sequences, FiniteSets, TLC

\* An absent document or object (JavaScript null / undefined).
NULL == "null"

\* An absent string: JavaScript treats null and "" alike in every test the
\* modelled code makes (x || null, if (x), filter(Boolean)).
NoString == <<>>

\* ------------------------------------------------------------------ bounds
\* Number of requests (each request is served once).
MaxProcs == 2

\* At most MaxFaults calls to the store fail in one run.
MaxFaults == 1

\* The days that pass at most.
MaxDays == 2

Procs == 1..MaxProcs

\* ----------------------------------------------------------------- strings
Digits == {"0", "1", "2", "3", "4", "5", "6", "7", "8", "9"}

DigitVal(c) ==
    CASE c = "0" -> 0 [] c = "1" -> 1 [] c = "2" -> 2 [] c = "3" -> 3
      [] c = "4" -> 4 [] c = "5" -> 5 [] c = "6" -> 6 [] c = "7" -> 7
      [] c = "8" -> 8 [] c = "9" -> 9

\* String.prototype.toLowerCase on one character (the /i flag of a pattern).
ToLower(c) ==
    CASE c = "A" -> "a" [] c = "B" -> "b" [] c = "C" -> "c" [] c = "D" -> "d"
      [] c = "E" -> "e" [] c = "F" -> "f" [] c = "G" -> "g" [] c = "H" -> "h"
      [] c = "I" -> "i" [] c = "J" -> "j" [] c = "K" -> "k" [] c = "L" -> "l"
      [] c = "M" -> "m" [] c = "N" -> "n" [] c = "O" -> "o" [] c = "P" -> "p"
      [] c = "Q" -> "q" [] c = "R" -> "r" [] c = "S" -> "s" [] c = "T" -> "t"
      [] c = "U" -> "u" [] c = "V" -> "v" [] c = "W" -> "w" [] c = "X" -> "x"
      [] c = "Y" -> "y" [] c = "Z" -> "z" [] OTHER -> c

\* String.prototype.startsWith
StartsWith(s, prefix) ==
    /\ Len(s) >= Len(prefix)
    /\ SubSeq(s, 1, Len(prefix)) = prefix

\* A case-insensitive unanchored pattern made of literal characters.
ContainsNoCase(s, pat) ==
    \E i \in 1..(Len(s) - Len(pat) + 1) :
        \A j \in 1..Len(pat) : ToLower(s[i + j - 1]) = ToLower(pat[j])

\* String.prototype.split for a one-character separator.
RECURSIVE Split(_, _)
Split(s, sep) ==
    IF \A i \in 1..Len(s) : s[i] # sep
    THEN <<s>>
    ELSE LET i == CHOOSE k \in 1..Len(s) :
                      s[k] = sep /\ \A j \in 1..(k - 1) : s[j] # sep
         IN  <<SubSeq(s, 1, i - 1)>> \o Split(SubSeq(s, i + 1, Len(s)), sep)

\* String.prototype.trim (blanks only).
RECURSIVE Trim(_)
Trim(s) ==
    IF Len(s) = 0 THEN s
    ELSE IF s[1] = " " THEN Trim(Tail(s))
    ELSE IF s[Len(s)] = " " THEN Trim(SubSeq(s, 1, Len(s) - 1))
    ELSE s

\* parseInt(part, 10) of a string of digits.
RECURSIVE ParseInt(_)
ParseInt(part) ==
    IF Len(part) = 0 THEN 0
    ELSE 10 * ParseInt(SubSeq(part, 1, Len(part) - 1)) + DigitVal(part[Len(part)])

\* ---------------------------------------------------------- IP normalizer
\* /^(\d{1,3}\.){3}\d{1,3}$/ and every part within 0..255
IsValidIPv4(ip) ==
    LET parts == Split(ip, ".")
    IN  /\ Len(parts) = 4
        /\ \A i \in 1..4 :
              /\ Len(parts[i]) \in 1..3
              /\ \A j \in 1..Len(parts[i]) : parts[i][j] \in Digits
        /\ \A i \in 1..4 : ParseInt(parts[i]) >= 0 /\ ParseInt(parts[i]) <= 255

\* /^172\.(1[6-9]|2[0-9]|3[0-1])\./
Is172Private(ip) ==
    /\ Len(ip) >= 7
    /\ SubSeq(ip, 1, 4) = <<"1", "7", "2", ".">>
    /\ ip[7] = "."
    /\ \/ ip[5] = "1" /\ ip[6] \in {"6", "7", "8", "9"}
       \/ ip[5] = "2" /\ ip[6] \in Digits
       \/ ip[5] = "3" /\ ip[6] \in {"0", "1"}

IsPublicIP(ip) ==
    /\ Len(ip) > 0
    /\ ~ \/ StartsWith(ip, <<"1", "0", ".">>)
         \/ Is172Private(ip)
         \/ StartsWith(ip, <<"1", "9", "2", ".", "1", "6", "8", ".">>)
         \/ StartsWith(ip, <<"1", "2", "7", ".">>)
         \/ StartsWith(ip, <<"1", "6", "9", ".", "2", "5", "4", ".">>)
         \/ StartsWith(ip, <<"2", "2", "4", ".">>)
         \/ StartsWith(ip, <<"0", ".">>)

Loopback4 == <<"1", "2", "7", ".", "0", ".", "0", ".", "1">>
Loopback6 == <<":", ":", "1">>
Localhost == <<"l", "o", "c", "a", "l", "h", "o", "s", "t">>
MappedPrefix == <<":", ":", "f", "f", "f", "f", ":">>

\* JavaScript truthiness of an optional string.
Truthy(s) == Len(s) > 0

\* extractFromForwardedFor: the first public entry of the chain, else its
\* first entry, else null.
ExtractFromForwardedFor(forwardedFor) ==
    IF ~Truthy(forwardedFor) THEN NoString
    ELSE LET raw == Split(forwardedFor, ",")
             ips == [i \in 1..Len(raw) |-> Trim(raw[i])]
             pub == {i \in 1..Len(ips) : IsPublicIP(ips[i])}
         IN  IF pub # {}
             THEN ips[CHOOSE i \in pub : \A j \in pub : i <= j]
             ELSE ips[1]

HeaderNames ==
    {"cf-connecting-ip", "x-real-ip", "x-forwarded-for", "x-client-ip",
     "x-forwarded", "forwarded-for", "forwarded"}

\* No proxy header at all: what every redirect handler passes (it passes none).
NoHeaders == [h \in HeaderNames |-> NoString]

\* A wrong normalizer, to test C21: no prefix is stripped, no loopback mapped.
AsGiven(candidateIp) == candidateIp

\* The prefix stripping and loopback mapping applied to one candidate.
NormalizeCandidate(candidateIp) ==
    LET a == IF StartsWith(candidateIp, MappedPrefix)
             THEN SubSeq(candidateIp, 8, Len(candidateIp))
             ELSE candidateIp
        b == IF a = Loopback6 THEN Loopback4 ELSE a
    IN  IF b = Localhost THEN Loopback4 ELSE b

NormalizeIpAddress(ip, headers) ==
    LET all == << ip,
                  headers["cf-connecting-ip"],
                  headers["x-real-ip"],
                  ExtractFromForwardedFor(headers["x-forwarded-for"]),
                  headers["x-client-ip"],
                  headers["x-forwarded"],
                  headers["forwarded-for"],
                  headers["forwarded"] >>
        ipSources == SelectSeq(all, Truthy)
        good == {i \in 1..Len(ipSources) :
                    IsValidIPv4(NormalizeCandidate(ipSources[i]))}
    IN  IF good # {}
        THEN NormalizeCandidate(ipSources[CHOOSE i \in good : \A j \in good : i <= j])
        ELSE Loopback4

\* ------------------------------------------------------ program constants
\* userAgent: maxLength 1000; referrer: maxLength 500 (Click schema)
MaxUserAgentLength == 1000
MaxReferrerLength == 500

\* The windows of the real-time recomputation, in minutes, and its top list.
FiveMinutes == 5
OneHour == 60
TopUrlLimit == 5

\* A date that was never set (lastClickedAt of a URL never clicked).
Never == 0 - 1

\* -------------------------------------------------------------- the inputs
\* A long string is its leading text followed by pad filler characters that
\* no pattern of the code matches.
Text(t, n) == [text |-> t, pad |-> n]
StrLen(x) == Len(x.text) + x.pad
NoText == Text(NoString, 0)

PublicIp == <<"8", ".", "8", ".", "8", ".", "8">>
MappedPublicIp == MappedPrefix \o PublicIp
PrivateIp == <<"1", "0", ".", "0", ".", "0", ".", "1">>

Mozilla == <<"M", "o", "z", "i", "l", "l", "a">>
Googlebot == <<"G", "o", "o", "g", "l", "e", "b", "o", "t">>

\* A referrer: its length, whether new URL(referrer) parses it, and the query
\* parameters it carries.
UtmKeys == {"utm_source", "utm_medium", "utm_campaign", "utm_term", "utm_content"}
Referrer(n, ok, names) ==
    [len |-> n, parses |-> ok, params |-> [k \in names |-> "v"]]
NoReferrer == Referrer(0, FALSE, {})

Request(via, target, method, ip, ua, ref) ==
    [via |-> via, target |-> target, method |-> method, ip |-> ip,
     remoteAddress |-> NoString, userAgent |-> ua, referrer |-> ref]

\* The requests a run draws from.  via = "redirect": GET /:shortCode served
\* by handleRedirect; via = "service": a call of recordClick with a URL id;
\* via = "track": GET /:shortCode/track served by handleTrackedRedirect.
Requests ==
    << Request("redirect", "a", "GET", PublicIp, Text(Mozilla, 0), NoReferrer),
       Request("redirect", "b", "GET", MappedPublicIp, Text(Googlebot, 0),
               Referrer(40, TRUE, {"utm_source", "ref"})),
       Request("redirect", "a", "GET", NoString, NoText,
               Referrer(MaxReferrerLength, TRUE, {})),
       Request("redirect", "b", "GET", PrivateIp,
               Text(Mozilla, MaxUserAgentLength - 6), NoReferrer),
       Request("redirect", "b", "GET", PrivateIp, Text(Mozilla, 0),
               Referrer(MaxReferrerLength + 1, FALSE, {})),
       Request("redirect", "c", "GET", PublicIp, Text(Mozilla, 0), NoReferrer),
       Request("redirect", "a", "HEAD", PublicIp, Text(Mozilla, 0), NoReferrer),
       Request("service", "c", "GET", PublicIp, Text(Mozilla, 0), NoReferrer),
       Request("service", "d", "GET", PublicIp, Text(Mozilla, 0), NoReferrer),
       Request("service", "z", "GET", PublicIp, Text(Mozilla, 0), NoReferrer),
       Request("track", "b", "GET", PublicIp, Text(Mozilla, 0), NoReferrer),
       Request("track", "c", "GET", PublicIp, Text(Mozilla, 0), NoReferrer) >>

\* --------------------------------------------------------------- the state
VARIABLES
    urls,     \* the URL collection: id -> document
    users,    \* the User collection: id -> totalClicks
    clicks,   \* the Click collection, in insertion order
    now,      \* the clock, in minutes; a run is over within the minute
    emitted,  \* the messages the last step handed to the broadcaster
    faults,   \* how many calls to the store have failed so far
    proc,     \* the requests: where each one stands and its local variables
    sockets,  \* the socket.io clients: connected or not, the rooms each is in
    purge,    \* the retention purge: where it stands and its local variables
    query     \* the last call of a function or read query: arguments and result

vars == <<urls, users, clicks, now, emitted, faults, proc, sockets, purge, query>>

\* Four more URLs, for the runs that start on a busy platform.
BusyUrls == <<"e", "f", "g", "h">>

UrlIds == {"a", "b", "c", "d"} \cup {BusyUrls[k] : k \in 1..Len(BusyUrls)}
UserIds == {"owner"}

NoUrl == [id |-> NULL]

\* "a" and "b" are live ("a" was created anonymously, "b" has an owner),
\* "c" was deactivated, "d" has expired; the busy URLs are live and owned; no
\* other id exists.
InitUrls ==
    [u \in UrlIds |->
        [id |-> u, shortCode |-> u, isActive |-> u # "c", isExpired |-> u = "d",
         userId |-> IF u = "a" THEN NULL ELSE "owner",
         clickCount |-> 0, uniqueClicks |-> 0, lastClickedAt |-> Never]]

NoCounters == [totalClicks |-> 0, uniqueClicks |-> 0]

InitProc ==
    [pc |-> "idle", req |-> 0, urlId |-> NULL, url |-> NoUrl,
     ipAddress |-> NoString, isUnique |-> FALSE, uniqueFailed |-> FALSE,
     saveFailed |-> FALSE, ts |-> Never, stats |-> "none",
     result |-> "none", message |-> "none", analytics |-> NoCounters, stored |-> NoCounters,
     response |-> 0, broadcast |-> "none"]

NoMessage == [room |-> NULL]

\* The socket.io clients, and a client that is not connected.  rooms: the
\* rooms the server has the socket in; asked: the topics whose last request
\* by the client was a subscribe; left: the rooms it was in when it last
\* disconnected.
Sockets == {"s1", "s2"}

NoSocket == [connected |-> FALSE, rooms |-> {}, asked |-> {}, left |-> {}]

\* No retention purge is running.
NoPurge == [pc |-> "idle"]

\* No function or read query has been called.
NoQuery == [op |-> "none"]

Init ==
    /\ urls = InitUrls
    /\ users = [o \in UserIds |-> 0]
    /\ clicks = <<>>
    /\ now = 0
    /\ emitted = NoMessage
    /\ faults = 0
    /\ proc = [p \in Procs |-> InitProc]
    /\ sockets = [s \in Sockets |-> NoSocket]
    /\ query = NoQuery
    /\ purge = NoPurge

\* ------------------------------------------------- Click model (Click.js)
\* The ipAddress validator of the schema.
AllIn(s, set) == \A i \in 1..Len(s) : s[i] \in set

HexDigits ==
    Digits \cup {"a", "b", "c", "d", "e", "f", "A", "B", "C", "D", "E", "F"}

IpFormatOk(ip) ==
    LET v4 == Split(ip, ".")
        v6 == Split(ip, ":")
    IN  \/ Len(v4) = 4 /\ \A i \in 1..4 : Len(v4[i]) \in 1..3 /\ AllIn(v4[i], Digits)
        \/ Len(v6) = 8 /\ \A i \in 1..8 : Len(v6[i]) \in 1..4 /\ AllIn(v6[i], HexDigits)
        \/ ip = Loopback6
        \/ ip = Localhost

\* Schema validation run by save(): required and well-formed ipAddress,
\* userAgent of at most 1000 characters, referrer of at most 500.
ValidateClick(click) ==
    /\ Truthy(click.ipAddress)
    /\ IpFormatOk(click.ipAddress)
    /\ StrLen(click.userAgent) <= MaxUserAgentLength
    /\ click.referrer.len <= MaxReferrerLength

BotPatterns ==
    { <<"b", "o", "t">>, <<"c", "r", "a", "w", "l">>,
      <<"s", "p", "i", "d", "e", "r">>, <<"s", "c", "r", "a", "p", "e">>,
      <<"g", "o", "o", "g", "l", "e">>, <<"b", "i", "n", "g">>,
      <<"y", "a", "h", "o", "o">>, <<"b", "a", "i", "d", "u">>,
      <<"f", "a", "c", "e", "b", "o", "o", "k">>,
      <<"t", "w", "i", "t", "t", "e", "r">>,
      <<"l", "i", "n", "k", "e", "d", "i", "n">>, <<"c", "u", "r", "l">>,
      <<"w", "g", "e", "t">>, <<"p", "o", "s", "t", "m", "a", "n">> }

DetectBot(userAgent) ==
    \E pat \in BotPatterns : ContainsNoCase(userAgent.text, pat)

\* config.enableGeolocation
EnableGeolocation == TRUE

NoLocation == [country |-> NULL, countryName |-> NULL]
LocalLocation == [country |-> "XX", countryName |-> "Local/Private"]

\* geoip.lookup: the country of the addresses its database knows.
GeoLookup(ip) == IF ip = PublicIp THEN "US" ELSE NULL

\* pre("save"): location from the IP address.
PreSaveLocation(click) ==
    IF click.isNew /\ EnableGeolocation /\ Truthy(click.ipAddress)
    THEN IF \/ click.ipAddress = Loopback4
            \/ click.ipAddress = Loopback6
            \/ StartsWith(click.ipAddress, <<"1", "9", "2", ".", "1", "6", "8", ".">>)
            \/ StartsWith(click.ipAddress, <<"1", "0", ".">>)
            \/ StartsWith(click.ipAddress, <<"1", "7", "2", ".">>)
         THEN [click EXCEPT !.location = LocalLocation]
         ELSE LET geo == GeoLookup(click.ipAddress)
              IN  IF geo # NULL
                  THEN [click EXCEPT !.location = [country |-> geo, countryName |-> geo]]
                  ELSE click
    ELSE click

\* A wrong hook, to test C26: it runs on updates instead of on new documents.
PreSaveBotOnUpdate(click) ==
    IF ~click.isNew /\ Truthy(click.userAgent.text)
    THEN [click EXCEPT !.isBot = DetectBot(click.userAgent)]
    ELSE click

\* pre("save"): bot detection.
PreSaveBot(click) ==
    IF click.isNew /\ Truthy(click.userAgent.text)
    THEN [click EXCEPT !.isBot = DetectBot(click.userAgent)]
    ELSE click

\* A wrong isUniqueClick, to test C27: it does not look at the store.
IsUniqueClickUnchecked(urlId, ipAddress) == TRUE

\* A wrong isUniqueClick, to test C3: it ignores the IP address.
IsUniqueClickOfUrl(urlId, ipAddress) ==
    ~ \E i \in 1..Len(clicks) : clicks[i].urlId = urlId

\* isUniqueClick when findOne answers: no stored click of this URL and IP.
IsUniqueClick(urlId, ipAddress) ==
    ~ \E i \in 1..Len(clicks) :
          clicks[i].urlId = urlId /\ clicks[i].ipAddress = ipAddress

\* ---------------------------------------- AnalyticsService (recordClick)
\* _extractCampaignData: the utm_* parameters of the referrer; nothing when
\* the referrer does not parse or carries none of them.
CampaignField(k) ==
    CASE k = "utm_source" -> "source" [] k = "utm_medium" -> "medium"
      [] k = "utm_campaign" -> "campaign" [] k = "utm_term" -> "term"
      [] k = "utm_content" -> "content"

NoCampaign == [k \in {} |-> "v"]

ExtractCampaignData(referrer) ==
    IF ~referrer.parses THEN NoCampaign
    ELSE LET ks == DOMAIN referrer.params \cap UtmKeys
         IN  [f \in {CampaignField(k) : k \in ks} |->
                 referrer.params[CHOOSE k \in ks : CampaignField(k) = f]]

\* Wrong URL checks, to test C5: the expiry check is missing.
UrlFoundAndActive(url) ==
    /\ url.id # NULL
    /\ url.isActive

\* The URL checks of recordClick: found and active, and not expired.
UrlUsable(url) ==
    /\ url.id # NULL
    /\ url.isActive
    /\ ~url.isExpired

\* The message of the error the failing check throws.
UrlError(url) ==
    IF url.id = NULL \/ ~url.isActive THEN "URL not found or inactive"
    ELSE "URL has expired"

FindById(urlId) == IF urlId \in UrlIds THEN urls[urlId] ELSE NoUrl

\* new Click({...}) with the campaign data added: the document save() gets.
NewClick(p) ==
    LET q == proc[p]
        r == Requests[q.req]
    IN  [id |-> p, isNew |-> TRUE, urlId |-> q.urlId, ipAddress |-> q.ipAddress,
         userAgent |-> r.userAgent, referrer |-> r.referrer,
         isUnique |-> q.isUnique, isBot |-> FALSE, location |-> NoLocation,
         campaign |-> IF r.referrer.len > 0
                      THEN ExtractCampaignData(r.referrer) ELSE NoCampaign,
         clickedAt |-> now]

\* Wrong update documents, to test C2 and C4: the first counts every click
\* as unique, the second does not count the click itself.
IncrementBoth(url, isUnique, ts) ==
    [url EXCEPT !.clickCount = @ + 1, !.uniqueClicks = @ + 1, !.lastClickedAt = ts]

IncrementUniqueOnly(url, isUnique, ts) ==
    [url EXCEPT !.uniqueClicks = @ + 1, !.lastClickedAt = ts]

\* The update document of _updateUrlStats applied to a URL document:
\* $inc clickCount, $inc uniqueClicks for a unique click, set lastClickedAt.
IncrementCounters(url, isUnique, ts) ==
    [url EXCEPT !.clickCount = @ + 1,
                !.uniqueClicks = IF isUnique THEN @ + 1 ELSE @,
                !.lastClickedAt = ts]

Counters(url) ==
    [totalClicks |-> url.clickCount, uniqueClicks |-> url.uniqueClicks]

IsRedirect(q) == Requests[q.req].via = "redirect"

\* recordClick rejects ("Click recording failed: ..."); handleRedirect's
\* catch answers 500.
Thrown(q, message) ==
    [InitProc EXCEPT !.req = q.req, !.urlId = q.urlId, !.saveFailed = q.saveFailed,
                     !.result = "error", !.message = message, !.pc = "done",
                     !.response = IF IsRedirect(q) THEN 500 ELSE q.response]

\* recordClick returns; handleRedirect redirects and defers the recomputation
\* with setImmediate.
Returned(q) ==
    [q EXCEPT !.result = "ok",
              !.analytics =
                  [totalClicks |-> q.url.clickCount + 1,
                   uniqueClicks |-> q.url.uniqueClicks + IF q.isUnique THEN 1 ELSE 0],
              !.response = IF IsRedirect(q) THEN 302 ELSE @,
              !.pc = IF IsRedirect(q) THEN "immediate" ELSE "done"]

\* ------------------------------------- the real-time recomputation
UrlClicksSince(urlId, since) ==
    {i \in 1..Len(clicks) : clicks[i].urlId = urlId /\ clicks[i].clickedAt >= since}

AllClicksSince(since) ==
    {i \in 1..Len(clicks) : clicks[i].clickedAt >= since}

\* URL.find({lastClickedAt >= since}).sort({lastClickedAt: -1}).limit(5)
TopActiveUrls(since) ==
    LET active == {u \in UrlIds : urls[u].lastClickedAt # Never
                                  /\ urls[u].lastClickedAt >= since}
        n == IF Cardinality(active) < TopUrlLimit
             THEN Cardinality(active) ELSE TopUrlLimit
    IN  CHOOSE S \in SUBSET active :
            /\ Cardinality(S) = n
            /\ \A u \in S, v \in active \ S :
                  urls[u].lastClickedAt >= urls[v].lastClickedAt

\* Math.round((n / 60) * 100) / 100, kept in hundredths
AvgClicksPerMinute(n) == (2 * 100 * n + OneHour) \div (2 * OneHour)

\* The two payloads the deferred task of handleRedirect emits.
RealtimePayload(urlId) ==
    LET fiveMinutesAgo == now - FiveMinutes
        oneHourAgo == now - OneHour
        mine == UrlClicksSince(urlId, oneHourAgo)
        all == AllClicksSince(oneHourAgo)
        top == TopActiveUrls(oneHourAgo)
    IN  [room |-> urls[urlId].shortCode,
         update |->
            [clicksLast5Minutes |-> Cardinality(UrlClicksSince(urlId, fiveMinutesAgo)),
             clicksLastHour |-> Cardinality(mine),
             activeCountries |->
                 {clicks[i].location.country : i \in mine} \ {NULL},
             uniqueVisitorsLastHour |->
                 Cardinality({clicks[i].ipAddress : i \in mine}),
             lastUpdated |-> now],
         global |->
            [recentClicks |-> Cardinality(all),
             activeUrls |-> Cardinality(top),
             activeCountries |->
                 Cardinality({clicks[i].location.country : i \in all}),
             avgClicksPerMinute |-> AvgClicksPerMinute(Cardinality(all)),
             topUrls |-> top,
             liveVisitors |-> Cardinality({clicks[i].ipAddress : i \in all}),
             lastUpdated |-> now]]

\* The catch of the deferred task: the error is logged, nothing else.
\* The request's local variables are gone once its last task has ended.
Ended(q) ==
    [InitProc EXCEPT !.req = q.req, !.urlId = q.urlId,
                     !.result = q.result, !.message = q.message, !.response = q.response, !.pc = "done"]

\* A wrong catch, to test C10: the failure changes the response.
BroadcastSurfaced(q) == [Ended(q) EXCEPT !.broadcast = "failed", !.response = 500]

BroadcastFailed(q) == [Ended(q) EXCEPT !.broadcast = "failed"]

BroadcastSent(q) == [Ended(q) EXCEPT !.broadcast = "sent"]

\* ------------------------------------------------------------ the actions
\* req.ip || req.connection.remoteAddress || "127.0.0.1"
HandlerIp(r) ==
    IF Truthy(r.ip) THEN r.ip
    ELSE IF Truthy(r.remoteAddress) THEN r.remoteAddress ELSE Loopback4

\* getUrlByShortCode: the live URL with this short code, if any.
GetUrlByShortCode(shortCode) ==
    IF \E u \in UrlIds : /\ urls[u].shortCode = shortCode
                         /\ urls[u].isActive /\ ~urls[u].isExpired
    THEN urls[CHOOSE u \in UrlIds : urls[u].shortCode = shortCode]
    ELSE NoUrl

\* A call to the store fails (the fault budget allows one more) or answers.
Fault == faults < MaxFaults /\ faults' = faults + 1
NoFault == UNCHANGED faults

\* A request arrives and is served up to the first query whose answer depends
\* on what other requests do.  handleRedirect: a HEAD request is answered 200;
\* parseUserAgent reads navigator.userAgent when the request has no
\* User-Agent, which throws where the runtime defines no navigator (500);
\* await urlService.getUrlByShortCode(shortCode) fails (500), finds no live
\* URL (404) or finds one, and recordClick is entered.  No operation writes
\* the shortCode, isActive or isExpired of a URL, so the answer of this first
\* lookup does not depend on when it is given.  A service call enters
\* recordClick at once.  recordClick first normalizes the IP address.
Receive(p, k) ==
    /\ proc[p].pc = "idle"
    /\ \A o \in Procs : o < p => proc[o].pc # "idle"
    /\ LET r == Requests[k]
           q == [proc[p] EXCEPT !.req = k]
           url == GetUrlByShortCode(r.target)
       IN  \/ /\ r.via = "redirect" /\ r.method = "HEAD"
              /\ NoFault
              /\ proc' = [proc EXCEPT ![p] = [q EXCEPT !.response = 200, !.pc = "done"]]
           \/ /\ r.via = "redirect" /\ r.method # "HEAD"
              /\ ~Truthy(r.userAgent.text)
              /\ NoFault
              /\ proc' = [proc EXCEPT ![p] = [q EXCEPT !.response = 500, !.pc = "done"]]
           \/ /\ r.via = "redirect" /\ r.method # "HEAD"
              /\ Fault
              /\ proc' = [proc EXCEPT ![p] = [q EXCEPT !.response = 500, !.pc = "done"]]
           \/ /\ r.via = "redirect" /\ r.method # "HEAD"
              /\ url.id = NULL
              /\ NoFault
              /\ proc' = [proc EXCEPT ![p] = [q EXCEPT !.response = 404, !.pc = "done"]]
           \/ /\ r.via = "redirect" /\ r.method # "HEAD"
              /\ url.id # NULL
              /\ NoFault
              /\ proc' = [proc EXCEPT ![p] =
                     [q EXCEPT !.urlId = url.id,
                               !.ipAddress = NormalizeIpAddress(HandlerIp(r), NoHeaders),
                               !.pc = "find"]]
           \/ /\ r.via = "service"
              /\ NoFault
              /\ proc' = [proc EXCEPT ![p] =
                     [q EXCEPT !.urlId = r.target,
                               !.ipAddress = NormalizeIpAddress(r.ip, NoHeaders),
                               !.pc = "find"]]
    /\ emitted' = NoMessage
    /\ UNCHANGED <<urls, users, clicks, now>>
    /\ UNCHANGED <<sockets, purge, query>>

\* recordClick: await URL_MODEL.findById(urlId) and the checks of the URL.
Find(p) ==
    /\ proc[p].pc = "find"
    /\ LET q == proc[p]
           url == FindById(q.urlId)
       IN  \/ /\ Fault
              /\ proc' = [proc EXCEPT ![p] = Thrown(q, "store")]
           \/ /\ NoFault
              /\ ~UrlUsable(url)
              /\ proc' = [proc EXCEPT ![p] = Thrown(q, UrlError(url))]
           \/ /\ NoFault
              /\ UrlUsable(url)
              /\ proc' = [proc EXCEPT ![p] = [q EXCEPT !.url = url, !.pc = "unique"]]
    /\ emitted' = NoMessage
    /\ UNCHANGED <<urls, users, clicks, now>>
    /\ UNCHANGED <<sockets, purge, query>>

\* recordClick: await Click.isUniqueClick(urlId, ipAddress); a failing
\* findOne is caught and answers false.
Unique(p) ==
    /\ proc[p].pc = "unique"
    /\ LET q == proc[p]
       IN  \/ /\ NoFault
              /\ proc' = [proc EXCEPT ![p] =
                     [q EXCEPT !.isUnique = IsUniqueClick(q.urlId, q.ipAddress),
                               !.pc = "save"]]
           \/ /\ Fault
              /\ proc' = [proc EXCEPT ![p] =
                     [q EXCEPT !.isUnique = FALSE, !.uniqueFailed = TRUE, !.pc = "save"]]
    /\ emitted' = NoMessage
    /\ UNCHANGED <<urls, users, clicks, now>>
    /\ UNCHANGED <<sockets, purge, query>>

\* A wrong catch, to test C6: the rejected save is ignored.
SaveIgnored(q, message) == [q EXCEPT !.ts = now, !.pc = "stats"]

\* The catch of recordClick when click.save() rejected.
SaveFailed(q, message) == Thrown([q EXCEPT !.saveFailed = TRUE], message)

\* A wrong insert, to test C20: it replaces the stored event of the same URL
\* and IP address, if there is one.
Upsert(store, doc) ==
    IF \E i \in 1..Len(store) :
           store[i].urlId = doc.urlId /\ store[i].ipAddress = doc.ipAddress
    THEN [i \in 1..Len(store) |->
             IF store[i].urlId = doc.urlId /\ store[i].ipAddress = doc.ipAddress
             THEN doc ELSE store[i]]
    ELSE Append(store, doc)

\* The insert of save() on a new document: one more event, the others as
\* they are.
Insert(store, doc) == Append(store, doc)

\* recordClick: await click.save(): validation, the pre-save hooks, the
\* insert.  When it resolves, _updateUrlStats takes new Date() and sends the
\* update.
Save(p) ==
    /\ proc[p].pc = "save"
    /\ LET q == proc[p]
           click == NewClick(p)
       IN  \/ /\ NoFault
              /\ ValidateClick(click)
              /\ clicks' = Insert(clicks,
                     [PreSaveBot(PreSaveLocation(click)) EXCEPT !.isNew = FALSE])
              /\ proc' = [proc EXCEPT ![p] = [q EXCEPT !.ts = now, !.pc = "stats"]]
           \/ /\ NoFault
              /\ ~ValidateClick(click)
              /\ proc' = [proc EXCEPT ![p] = SaveFailed(q, "validation")]
              /\ UNCHANGED clicks
           \/ /\ Fault
              /\ ValidateClick(click)
              /\ proc' = [proc EXCEPT ![p] = SaveFailed(q, "store")]
              /\ UNCHANGED clicks
    /\ emitted' = NoMessage
    /\ UNCHANGED <<urls, users, now>>
    /\ UNCHANGED <<sockets, purge, query>>

\* What follows _updateUrlStats: the owner's statistics if the URL has an
\* owner, else the return of recordClick.
AfterUrlStats(q) ==
    IF q.url.userId # NULL THEN [q EXCEPT !.pc = "user"] ELSE Returned(q)

\* _updateUrlStats: await URL_MODEL.findByIdAndUpdate(url._id, updateData),
\* one atomic update of the document; a failure is caught and logged.
UpdateUrlStats(p) ==
    /\ proc[p].pc = "stats"
    /\ LET q == proc[p]
           doc == IncrementCounters(urls[q.urlId], q.isUnique, q.ts)
       IN  \/ /\ NoFault
              /\ urls' = [urls EXCEPT ![q.urlId] = doc]
              /\ proc' = [proc EXCEPT ![p] =
                     AfterUrlStats([q EXCEPT !.stats = "applied",
                                             !.stored = Counters(doc)])]
           \/ /\ Fault
              /\ proc' = [proc EXCEPT ![p] = AfterUrlStats([q EXCEPT !.stats = "failed"])]
              /\ UNCHANGED urls
    /\ emitted' = NoMessage
    /\ UNCHANGED <<users, clicks, now>>
    /\ UNCHANGED <<sockets, purge, query>>

\* _updateUserStats: await User.findByIdAndUpdate(userId, $inc totalClicks);
\* a failure is caught and logged.  Then recordClick returns.
UpdateUserStats(p) ==
    /\ proc[p].pc = "user"
    /\ LET q == proc[p]
       IN  \/ /\ NoFault
              /\ users' = [users EXCEPT ![q.url.userId] = @ + 1]
              /\ proc' = [proc EXCEPT ![p] = Returned(q)]
           \/ /\ Fault
              /\ proc' = [proc EXCEPT ![p] = Returned(q)]
              /\ UNCHANGED users
    /\ emitted' = NoMessage
    /\ UNCHANGED <<urls, clicks, now>>
    /\ UNCHANGED <<sockets, purge, query>>

\* The setImmediate callback of handleRedirect: the queries and the two
\* emits, or the catch when any of them fails.
Broadcast(p) ==
    /\ proc[p].pc = "immediate"
    /\ LET q == proc[p]
       IN  \/ /\ NoFault
              /\ proc' = [proc EXCEPT ![p] = BroadcastSent(q)]
              /\ emitted' = RealtimePayload(q.urlId)
           \/ /\ Fault
              /\ proc' = [proc EXCEPT ![p] = BroadcastFailed(q)]
              /\ emitted' = NoMessage
    /\ UNCHANGED <<urls, users, clicks, now>>
    /\ UNCHANGED <<sockets, purge, query>>

\* handleTrackedRedirect: the lookup fails (500), finds no live URL (404) or
\* finds one; then recordClick is called and not awaited (it runs up to its
\* first await), and the redirect is answered at once.
ReceiveTracked(p, k) ==
    /\ proc[p].pc = "idle"
    /\ \A o \in Procs : o < p => proc[o].pc # "idle"
    /\ LET r == Requests[k]
           q == [proc[p] EXCEPT !.req = k]
           url == GetUrlByShortCode(r.target)
       IN  /\ r.via = "track"
           /\ \/ /\ Fault
                 /\ proc' = [proc EXCEPT ![p] = [q EXCEPT !.response = 500, !.pc = "done"]]
              \/ /\ url.id = NULL
                 /\ NoFault
                 /\ proc' = [proc EXCEPT ![p] = [q EXCEPT !.response = 404, !.pc = "done"]]
              \/ /\ url.id # NULL
                 /\ NoFault
                 /\ proc' = [proc EXCEPT ![p] =
                        [q EXCEPT !.urlId = url.id,
                                  !.ipAddress = NormalizeIpAddress(HandlerIp(r), NoHeaders),
                                  !.response = 302,
                                  !.pc = "find"]]
    /\ emitted' = NoMessage
    /\ UNCHANGED <<urls, users, clicks, now>>
    /\ UNCHANGED <<sockets, purge, query>>

Next ==
    \/ \E p \in Procs, k \in 1..Len(Requests) : Receive(p, k)
    \/ \E p \in Procs : Find(p)
    \/ \E p \in Procs : Unique(p)
    \/ \E p \in Procs : Save(p)
    \/ \E p \in Procs : UpdateUrlStats(p)
    \/ \E p \in Procs : UpdateUserStats(p)
    \/ \E p \in Procs : Broadcast(p)

Spec == Init /\ [][Next]_vars

\* ------------------------------------------------ sequential ingestions
\* recordClick is running for request p.
InRecordClick(p) == proc[p].pc \in {"find", "unique", "save", "stats", "user"}

\* A caller that starts an ingestion only when the previous one has returned.
ReceiveSeq(p, k) ==
    /\ \A o \in Procs : ~InRecordClick(o)
    /\ Receive(p, k)

NextSeq ==
    \/ \E p \in Procs, k \in 1..Len(Requests) : ReceiveSeq(p, k)
    \/ \E p \in Procs : Find(p)
    \/ \E p \in Procs : Unique(p)
    \/ \E p \in Procs : Save(p)
    \/ \E p \in Procs : UpdateUrlStats(p)
    \/ \E p \in Procs : UpdateUserStats(p)
    \/ \E p \in Procs : Broadcast(p)

SpecSeq == Init /\ [][NextSeq]_vars

\* ------------------------------------------------ the redirect entry points
\* GET /:shortCode/track, next to one GET /:shortCode.
EntryRequests == {k \in 1..Len(Requests) :
                     \/ Requests[k].via = "track"
                     \/ /\ Requests[k].via = "redirect"
                        /\ Requests[k].method = "GET"
                        /\ Requests[k].target = "a"
                        /\ Requests[k].ip = PublicIp}

NextEntry ==
    \/ \E p \in Procs, k \in EntryRequests : Receive(p, k)
    \/ \E p \in Procs, k \in EntryRequests : ReceiveTracked(p, k)
    \/ \E p \in Procs : Find(p)
    \/ \E p \in Procs : Unique(p)
    \/ \E p \in Procs : Save(p)
    \/ \E p \in Procs : UpdateUrlStats(p)
    \/ \E p \in Procs : UpdateUserStats(p)
    \/ \E p \in Procs : Broadcast(p)

SpecEntry == Init /\ [][NextEntry]_vars

\* ---------------------------------------------------- the socket.io server
\* The short codes a client names when it subscribes.
ShortCodes == {"a", "b"}

\* The topic of a short code, as the client means it: url:<shortCode>.
UrlTopic(shortCode) == <<"url", shortCode>>

\* The global real-time topic, and the room "real-time".
RealTimeRoom == <<"real-time", "">>

\* Wrong handlers, to test C13: they join and leave the room of one URL only.
UrlRoomOfA(shortCode) == <<"url", "a">>

\* The room the subscribe:url and unsubscribe:url handlers join and leave.
UrlRoom(shortCode) == <<"url", shortCode>>

\* The room handleRedirect emits "realtime:update" to.
EmitRoom(shortCode) == <<"url", shortCode>>

\* socket.join(room), socket.leave(room)
Joined(sock, room) == [sock EXCEPT !.rooms = @ \cup {room}]
Left(sock, room) == [sock EXCEPT !.rooms = @ \ {room}]

\* A wrong disconnect, to test C14: the socket stays in its rooms.
StaysInRooms(sock) == [sock EXCEPT !.connected = FALSE, !.left = sock.rooms]

\* socket.io takes a disconnected socket out of every room; the disconnect
\* handler logs.
Disconnected(sock) == [NoSocket EXCEPT !.left = sock.rooms]

\* io.on("connection")
Connect(s) ==
    /\ ~sockets[s].connected
    /\ sockets' = [sockets EXCEPT ![s] = [NoSocket EXCEPT !.connected = TRUE]]
    /\ emitted' = NoMessage
    /\ UNCHANGED <<urls, users, clicks, now, faults, proc, purge, query>>

\* socket.on("subscribe:url")
SubscribeUrl(s, shortCode) ==
    /\ sockets[s].connected
    /\ sockets' = [sockets EXCEPT ![s] =
           [Joined(@, UrlRoom(shortCode)) EXCEPT !.asked = @ \cup {UrlTopic(shortCode)}]]
    /\ emitted' = NoMessage
    /\ UNCHANGED <<urls, users, clicks, now, faults, proc, purge, query>>

\* socket.on("unsubscribe:url")
UnsubscribeUrl(s, shortCode) ==
    /\ sockets[s].connected
    /\ sockets' = [sockets EXCEPT ![s] =
           [Left(@, UrlRoom(shortCode)) EXCEPT !.asked = @ \ {UrlTopic(shortCode)}]]
    /\ emitted' = NoMessage
    /\ UNCHANGED <<urls, users, clicks, now, faults, proc, purge, query>>

\* The client emits "subscribe:real-time": the connection handler of the io
\* that handleRedirect emits on registers no listener for it.
SubscribeRealTime(s) ==
    /\ sockets[s].connected
    /\ sockets' = [sockets EXCEPT ![s].asked = @ \cup {RealTimeRoom}]
    /\ emitted' = NoMessage
    /\ UNCHANGED <<urls, users, clicks, now, faults, proc, purge, query>>

\* The client emits "unsubscribe:real-time": no listener either.
UnsubscribeRealTime(s) ==
    /\ sockets[s].connected
    /\ sockets' = [sockets EXCEPT ![s].asked = @ \ {RealTimeRoom}]
    /\ emitted' = NoMessage
    /\ UNCHANGED <<urls, users, clicks, now, faults, proc, purge, query>>

\* socket.on("disconnect")
Disconnect(s) ==
    /\ sockets[s].connected
    /\ sockets' = [sockets EXCEPT ![s] = Disconnected(@)]
    /\ emitted' = NoMessage
    /\ UNCHANGED <<urls, users, clicks, now, faults, proc, purge, query>>

\* io.to(room).emit: the event reaches the sockets that are in the room.
DeliveredUpdate(s) ==
    emitted.room # NULL /\ EmitRoom(emitted.room) \in sockets[s].rooms

DeliveredGlobal(s) ==
    emitted.room # NULL /\ RealTimeRoom \in sockets[s].rooms

\* The redirect whose clicks are published while clients come and go; the
\* redirects arrive one after another.
SocketRequests == {k \in 1..Len(Requests) :
                      /\ Requests[k].via = "redirect"
                      /\ Requests[k].target = "b"
                      /\ Requests[k].ip = MappedPublicIp}

NextSocket ==
    \/ \E s \in Sockets : Connect(s)
    \/ \E s \in Sockets, c \in ShortCodes : SubscribeUrl(s, c)
    \/ \E s \in Sockets, c \in ShortCodes : UnsubscribeUrl(s, c)
    \/ \E s \in Sockets : SubscribeRealTime(s)
    \/ \E s \in Sockets : UnsubscribeRealTime(s)
    \/ \E s \in Sockets : Disconnect(s)
    \/ \E p \in Procs, k \in SocketRequests : ReceiveSeq(p, k)
    \/ \E p \in Procs : Find(p)
    \/ \E p \in Procs : Unique(p)
    \/ \E p \in Procs : Save(p)
    \/ \E p \in Procs : UpdateUrlStats(p)
    \/ \E p \in Procs : UpdateUserStats(p)
    \/ \E p \in Procs : Broadcast(p)

SpecSocket == Init /\ [][NextSocket]_vars

\* ------------------------------------------------- the retention purge
\* The clock counts minutes: 24 * 60 of them make a day.
MinutesPerDay == 1440

\* The options of cleanupAnalyticsData the model draws from.
RetentionChoices == {0, 1}
BatchSizes == {1, 2}

\* { clickedAt: { $lt: cutoffDate } }
OlderThan(click, cutoffDate) == click.clickedAt < cutoffDate

\* A wrong count, to test C17: it also counts the events at the horizon.
CountOlderOrAt(store, cutoffDate) ==
    Cardinality({i \in 1..Len(store) : store[i].clickedAt <= cutoffDate})

\* Click.countDocuments({ clickedAt: { $lt: cutoffDate } })
CountOlder(store, cutoffDate) ==
    Cardinality({i \in 1..Len(store) : OlderThan(store[i], cutoffDate)})

\* A wrong delete, to test C18: it also takes the events at the horizon.
NotOlderNorAt(store, cutoffDate) ==
    LET Keep(click) == click.clickedAt > cutoffDate
    IN  SelectSeq(store, Keep)

\* The events the filter does not match, in their order.
NotOlder(store, cutoffDate) ==
    LET Keep(click) == ~OlderThan(click, cutoffDate)
    IN  SelectSeq(store, Keep)

\* What Click.deleteMany({ clickedAt: { $lt: cutoffDate } }, { limit })
\* leaves in the store: deleteMany deletes every document the filter
\* matches, the store has no limit for it and the option is ignored.
DeleteMany(store, cutoffDate, limit) == NotOlder(store, cutoffDate)

\* cleanupAnalyticsData({retentionDays, batchSize, dryRun}) up to its first
\* await.  before: the store when the purge started.
StartPurge(dryRun, retentionDays, batchSize) ==
    /\ purge.pc \in {"idle", "done"}
    /\ purge' = [pc |-> IF dryRun THEN "count" ELSE "delete",
                 dryRun |-> dryRun, retentionDays |-> retentionDays,
                 batchSize |-> batchSize,
                 cutoffDate |-> now - retentionDays * MinutesPerDay,
                 totalDeleted |-> 0, result |-> "none", recordsToDelete |-> 0,
                 before |-> clicks, rounds |-> 0]
    /\ emitted' = NoMessage
    /\ UNCHANGED <<urls, users, clicks, now, faults, proc, sockets, query>>

\* The dry run: await Click.countDocuments(...), and the report; a failure
\* is rethrown as "Analytics data cleanup failed".
PurgeCount ==
    /\ purge.pc = "count"
    /\ \/ /\ NoFault
          /\ purge' = [purge EXCEPT
                 !.pc = "done", !.result = "ok",
                 !.recordsToDelete = CountOlder(clicks, purge.cutoffDate)]
       \/ /\ Fault
          /\ purge' = [purge EXCEPT !.pc = "done", !.result = "error"]
    /\ emitted' = NoMessage
    /\ UNCHANGED <<urls, users, clicks, now, proc, sockets, query>>

\* A wrong loop condition, to test C30: it goes on while anything was
\* deleted.
HasMoreWhileAny(deletedCount, batchSize) == deletedCount > 0

\* hasMore = result.deletedCount === batchSize
HasMore(deletedCount, batchSize) == deletedCount = batchSize

\* One round of the loop: await Click.deleteMany(...), totalDeleted and
\* hasMore; the report when hasMore is false.  rounds counts the rounds of
\* this purge.
PurgeDelete ==
    /\ purge.pc = "delete"
    /\ \/ /\ NoFault
          /\ LET left == DeleteMany(clicks, purge.cutoffDate, purge.batchSize)
                 deletedCount == Len(clicks) - Len(left)
                 hasMore == HasMore(deletedCount, purge.batchSize)
             IN  /\ clicks' = left
                 /\ purge' = [purge EXCEPT
                        !.totalDeleted = @ + deletedCount,
                        !.rounds = @ + 1,
                        !.pc = IF hasMore THEN "pause" ELSE "done",
                        !.result = IF hasMore THEN @ ELSE "ok"]
       \/ /\ Fault
          /\ purge' = [purge EXCEPT !.rounds = @ + 1, !.pc = "done", !.result = "error"]
          /\ UNCHANGED clicks
    /\ emitted' = NoMessage
    /\ UNCHANGED <<urls, users, now, proc, sockets, query>>

\* await new Promise((resolve) => setTimeout(resolve, 100)), then the next
\* round.
PurgePause ==
    /\ purge.pc = "pause"
    /\ purge' = [purge EXCEPT !.pc = "delete"]
    /\ emitted' = NoMessage
    /\ UNCHANGED <<urls, users, clicks, now, faults, proc, sockets, query>>

\* A day passes.
Day ==
    /\ now < MaxDays * MinutesPerDay
    /\ now' = now + MinutesPerDay
    /\ emitted' = NoMessage
    /\ UNCHANGED <<urls, users, clicks, faults, proc, sockets, purge, query>>

\* The purge runs while nothing else does: a purge starts, a redirect
\* request for b arrives and a day passes only when no request is in
\* progress and no purge is running.
Quiet ==
    /\ purge.pc \in {"idle", "done"}
    /\ \A p \in Procs : proc[p].pc \in {"idle", "done"}

NextPurge ==
    \/ \E p \in Procs, k \in SocketRequests : Quiet /\ ReceiveSeq(p, k)
    \/ \E p \in Procs : Find(p)
    \/ \E p \in Procs : Unique(p)
    \/ \E p \in Procs : Save(p)
    \/ \E p \in Procs : UpdateUrlStats(p)
    \/ \E p \in Procs : UpdateUserStats(p)
    \/ \E p \in Procs : Broadcast(p)
    \/ \E dryRun \in BOOLEAN, retentionDays \in RetentionChoices, batchSize \in BatchSizes :
          Quiet /\ StartPurge(dryRun, retentionDays, batchSize)
    \/ PurgeCount
    \/ PurgeDelete
    \/ PurgePause
    \/ Quiet /\ Day

SpecPurge == Init /\ [][NextPurge]_vars

\* --------------------------------------------- a URL expires meanwhile
\* The clock passes the expiresAt of live URL u: from now on its isExpired
\* reads true.
Expire(u) ==
    /\ urls[u].isActive /\ ~urls[u].isExpired
    /\ urls' = [urls EXCEPT ![u].isExpired = TRUE]
    /\ emitted' = NoMessage
    /\ UNCHANGED <<users, clicks, now, faults, proc, sockets, purge, query>>

\* GET /:shortCode for b (live at first) and for c (inactive).
ExpiryRequests ==
    {k \in 1..Len(Requests) :
        /\ Requests[k].via = "redirect" /\ Requests[k].method = "GET"
        /\ Requests[k].target \in {"b", "c"}}

\* Redirect requests served one after the other while URL b may expire.
NextExpiry ==
    \/ \E p \in Procs :
          \/ \E k \in ExpiryRequests : ReceiveSeq(p, k)
          \/ Find(p)
          \/ Unique(p)
          \/ Save(p)
          \/ UpdateUrlStats(p)
          \/ UpdateUserStats(p)
          \/ Broadcast(p)
    \/ Expire("b")

SpecExpiry == Init /\ [][NextExpiry]_vars

\* ------------------------------------------- the IP normalizer, called
\* The direct IP arguments: absent, valid addresses, an IPv4-mapped address,
\* the loopbacks, a mapped loopback, and strings that are no IPv4 address.
Garbage == <<"a", "b", "c">>
OtherIp == <<"9", ".", "9", ".", "9", ".", "9">>
IpInputs ==
    {NoString, PublicIp, PrivateIp, MappedPublicIp, Loopback6, Localhost,
     MappedPrefix \o Loopback6, Garbage,
     <<"2", "5", "6", ".", "1", ".", "1", ".", "1">>,
     <<"1", ".", "2", ".", "3">>}

\* The headers: each of four is absent or one of a few values; the chains of
\* x-forwarded-for start with a private address, with a string that is no
\* address, or hold one private address.
HeaderInputs ==
    {[h \in HeaderNames |->
         CASE h = "cf-connecting-ip" -> cf
           [] h = "x-forwarded-for" -> xff
           [] h = "x-client-ip" -> xc
           [] h = "forwarded" -> fw
           [] OTHER -> NoString] :
        cf \in {NoString, OtherIp, Garbage},
        xff \in {NoString,
                 PrivateIp \o <<",", " ">> \o OtherIp,
                 Garbage \o <<",">> \o OtherIp,
                 PrivateIp},
        xc \in {NoString, PublicIp},
        fw \in {NoString, Loopback6}}

\* this._normalizeIpAddress(ip, headers)
Normalize(ip, headers) ==
    /\ query' = [op |-> "normalize", ip |-> ip, headers |-> headers,
                 result |-> NormalizeIpAddress(ip, headers)]
    /\ emitted' = NoMessage
    /\ UNCHANGED <<urls, users, clicks, now, faults, proc, sockets, purge>>

NextNormalize == \E ip \in IpInputs, headers \in HeaderInputs : Normalize(ip, headers)

SpecNormalize == Init /\ [][NextNormalize]_vars

\* ------------------------------------------------ the real-time query
\* The windows, in minutes, a query draws from: the default, and two days.
WindowChoices == {OneHour, 2 * MinutesPerDay}

\* What the $group and $project stages of getRealTimeStats make of the
\* matched events; avgClicksPerMinute is kept as dividend and divisor.
GroupStats(matched, minutes) ==
    [recentClicks |-> Cardinality(matched),
     activeUrls |-> Cardinality({clicks[i].urlId : i \in matched}),
     activeCountries |->
         Cardinality({clicks[i].location.country : i \in matched} \ {NULL}),
     avgClicksPerMinute |-> <<Cardinality(matched), minutes>>]

\* The default getRealTimeStats returns when the aggregate yields nothing.
ZeroStats ==
    [recentClicks |-> 0, activeUrls |-> 0, activeCountries |-> 0,
     avgClicksPerMinute |-> <<0, 1>>]

\* A wrong getRealTimeStats, to test C23: the $match has lost its time
\* window.
RealTimeStatsOfAllTime(minutes) ==
    LET matched == {i \in 1..Len(clicks) : ~clicks[i].isBot}
    IN  IF matched = {} THEN ZeroStats ELSE GroupStats(matched, minutes)

\* Click.getRealTimeStats(minutes): the $match keeps the events of the
\* window that are not flagged as bots.
RealTimeStats(minutes) ==
    LET timeThreshold == now - minutes
        matched == {i \in 1..Len(clicks) :
                       clicks[i].clickedAt >= timeThreshold /\ ~clicks[i].isBot}
    IN  IF matched = {} THEN ZeroStats ELSE GroupStats(matched, minutes)

\* getRealTimeAnalytics({minutes}): await Click.getRealTimeStats(minutes);
\* a failing aggregate is rethrown.
GetRealTimeStats(minutes) ==
    /\ \/ /\ NoFault
          /\ query' = [op |-> "realTimeStats", minutes |-> minutes,
                       result |-> "ok", statistics |-> RealTimeStats(minutes)]
       \/ /\ Fault
          /\ query' = [op |-> "realTimeStats", minutes |-> minutes,
                       result |-> "error", statistics |-> ZeroStats]
    /\ emitted' = NoMessage
    /\ UNCHANGED <<urls, users, clicks, now, proc, sockets, purge>>

\* The requests of the real-time specification: GET /a from a browser and
\* GET /b from Googlebot.
StatsRequests ==
    {k \in 1..Len(Requests) :
        /\ Requests[k].via = "redirect" /\ Requests[k].method = "GET"
        /\ Requests[k].ip \in {PublicIp, MappedPublicIp}
        /\ Requests[k].target \in {"a", "b"}}

\* Ingestions one after the other, days passing in between, and real-time
\* queries at any moment.
NextStats ==
    \/ \E p \in Procs, k \in StatsRequests : ReceiveSeq(p, k)
    \/ \E p \in Procs : Find(p)
    \/ \E p \in Procs : Unique(p)
    \/ \E p \in Procs : Save(p)
    \/ \E p \in Procs : UpdateUrlStats(p)
    \/ \E p \in Procs : UpdateUserStats(p)
    \/ \E p \in Procs : Broadcast(p)
    \/ (\A p \in Procs : proc[p].pc \in {"idle", "done"}) /\ Day
    \/ \E minutes \in WindowChoices : GetRealTimeStats(minutes)

SpecStats == Init /\ [][NextStats]_vars

\* ------------------------------------------------ the analytics query
\* The time ranges a query draws from, in minutes before now: the last hour
\* and the default, the last 30 days.
RangeChoices == {OneHour, 30 * MinutesPerDay}

\* A wrong $match, to test C25: excludeBots is ignored.
MatchedWithBots(urlId, startDate, endDate, excludeBots) ==
    {i \in 1..Len(clicks) :
        /\ clicks[i].urlId = urlId
        /\ clicks[i].clickedAt >= startDate /\ clicks[i].clickedAt <= endDate}

\* The $match stage of getUrlAnalytics.
Matched(urlId, startDate, endDate, excludeBots) ==
    {i \in 1..Len(clicks) :
        /\ clicks[i].urlId = urlId
        /\ clicks[i].clickedAt >= startDate /\ clicks[i].clickedAt <= endDate
        /\ excludeBots => ~clicks[i].isBot}

\* A $group stage counting the events by a key; Key(i) is <<key>>, and <<>>
\* where the facet's own $match drops the event.
GroupBy(events, Key(_)) ==
    {[id |-> k, count |-> Cardinality({i \in events : Key(i) = k})] :
        k \in {Key(i) : i \in events} \ {<<>>}}

\* Click.getUrlAnalytics: the overview (its default when the facet is
\* empty; no event carries a loadTime, so the $avg of a group is null, kept
\* as the empty sequence) and the facets, each kept as the set of its
\* groups.  Every event of a redirect is of a desktop device with browser
\* "Unknown", which byBrowser drops.
UrlAnalytics(urlId, startDate, endDate, excludeBots) ==
    LET events == Matched(urlId, startDate, endDate, excludeBots)
        Country(i) == IF clicks[i].location.country # NULL
                      THEN <<clicks[i].location.country>> ELSE <<>>
        Device(i) == <<"desktop">>
        Ref(i) == IF clicks[i].referrer.len > 0 THEN <<clicks[i].referrer>> ELSE <<>>
        Hour(i) == <<(clicks[i].clickedAt \div OneHour) % 24>>
        DayOf(i) == <<clicks[i].clickedAt \div MinutesPerDay>>
    IN  [overview |->
            IF events = {}
            THEN [totalClicks |-> 0, uniqueClicks |-> 0, botClicks |-> 0,
                  averageLoadTime |-> <<0>>]
            ELSE [totalClicks |-> Cardinality(events),
                  uniqueClicks |-> Cardinality({i \in events : clicks[i].isUnique}),
                  botClicks |-> Cardinality({i \in events : clicks[i].isBot}),
                  averageLoadTime |-> <<>>],
         byCountry |-> GroupBy(events, Country),
         byDevice |-> GroupBy(events, Device),
         byBrowser |-> {},
         byReferrer |-> GroupBy(events, Ref),
         clicksByHour |-> GroupBy(events, Hour),
         clicksByDay |-> GroupBy(events, DayOf)]

\* analyticsService.getUrlAnalytics(urlId, {startDate, endDate,
\* excludeBots}) for an existing URL, with endDate = now: the report, or the
\* error a failing query is rethrown as.
GetUrlAnalytics(urlId, range, excludeBots) ==
    /\ FindById(urlId).id # NULL
    /\ LET call == [op |-> "urlAnalytics", urlId |-> urlId,
                    startDate |-> now - range, endDate |-> now,
                    excludeBots |-> excludeBots]
       IN  \/ /\ NoFault
              /\ query' = call @@
                          [result |-> "ok",
                           report |-> UrlAnalytics(urlId, now - range, now, excludeBots)]
           \/ /\ Fault
              /\ query' = call @@ [result |-> "error"]
    /\ emitted' = NoMessage
    /\ UNCHANGED <<urls, users, clicks, now, proc, sockets, purge>>

\* Ingestions one after the other, days passing in between; then, with no
\* request in progress, analytics queries for a and b (a query writes
\* nothing: what follows it is as if it had not been made).
NextAnalytics ==
    \/ \E p \in Procs, k \in StatsRequests : query = NoQuery /\ ReceiveSeq(p, k)
    \/ \E p \in Procs : Find(p)
    \/ \E p \in Procs : Unique(p)
    \/ \E p \in Procs : Save(p)
    \/ \E p \in Procs : UpdateUrlStats(p)
    \/ \E p \in Procs : UpdateUserStats(p)
    \/ \E p \in Procs : Broadcast(p)
    \/ query = NoQuery /\ Quiet /\ Day
    \/ \E urlId \in ShortCodes, range \in RangeChoices, excludeBots \in BOOLEAN :
          Quiet /\ GetUrlAnalytics(urlId, range, excludeBots)

SpecAnalytics == Init /\ [][NextAnalytics]_vars

\* ------------------------------------------------ a busy platform
\* The event of an earlier click on the k-th busy URL, as save() stored it.
BusyClick(k) ==
    LET new == [id |-> MaxProcs + k, isNew |-> TRUE, urlId |-> BusyUrls[k],
                ipAddress |-> OtherIp, userAgent |-> Text(Mozilla, 0),
                referrer |-> NoReferrer, isUnique |-> TRUE, isBot |-> FALSE,
                location |-> NoLocation, campaign |-> NoCampaign,
                clickedAt |-> 0]
    IN  [PreSaveBot(PreSaveLocation(new)) EXCEPT !.isNew = FALSE]

\* Within the minute, each busy URL has been clicked once: its event is
\* stored, its counters and its owner's total are incremented.
InitBusy ==
    /\ urls = [u \in UrlIds |->
                  IF \E k \in 1..Len(BusyUrls) : BusyUrls[k] = u
                  THEN [InitUrls[u] EXCEPT !.clickCount = 1, !.uniqueClicks = 1,
                                           !.lastClickedAt = 0]
                  ELSE InitUrls[u]]
    /\ users = [o \in UserIds |-> Len(BusyUrls)]
    /\ clicks = [k \in 1..Len(BusyUrls) |-> BusyClick(k)]
    /\ now = 0
    /\ emitted = NoMessage
    /\ faults = 0
    /\ proc = [p \in Procs |-> InitProc]
    /\ sockets = [s \in Sockets |-> NoSocket]
    /\ purge = NoPurge
    /\ query = NoQuery

\* GET /a and GET /b, served one after the other on the busy platform.
NextBusy ==
    \/ \E p \in Procs, k \in StatsRequests : ReceiveSeq(p, k)
    \/ \E p \in Procs : Find(p)
    \/ \E p \in Procs : Unique(p)
    \/ \E p \in Procs : Save(p)
    \/ \E p \in Procs : UpdateUrlStats(p)
    \/ \E p \in Procs : UpdateUserStats(p)
    \/ \E p \in Procs : Broadcast(p)

SpecBusy == InitBusy /\ [][NextBusy]_vars

\* ------------------------------------ the clock runs during ingestions
\* Concurrent ingestions of a and b while time passes: the requests overlap
\* at will and the clock advances between any two steps.
NextClock ==
    \/ \E p \in Procs, k \in StatsRequests : Receive(p, k)
    \/ \E p \in Procs : Find(p)
    \/ \E p \in Procs : Unique(p)
    \/ \E p \in Procs : Save(p)
    \/ \E p \in Procs : UpdateUrlStats(p)
    \/ \E p \in Procs : UpdateUserStats(p)
    \/ \E p \in Procs : Broadcast(p)
    \/ Day

SpecClock == Init /\ [][NextClock]_vars

\* ------------------------------------- purges in the middle of ingestions
\* The purge is a background job: its steps fall anywhere among the steps of
\* the ingestions of b, which a caller starts one after the other; it runs
\* once a day at most with batchSize 1, keeps nothing older than now and is
\* over within the day.
NextRetention ==
    \/ \E p \in Procs, k \in SocketRequests : ReceiveSeq(p, k)
    \/ \E p \in Procs : Find(p)
    \/ \E p \in Procs : Unique(p)
    \/ \E p \in Procs : Save(p)
    \/ \E p \in Procs : UpdateUrlStats(p)
    \/ \E p \in Procs : UpdateUserStats(p)
    \/ \E p \in Procs : Broadcast(p)
    \/ /\ purge.pc = "done" => purge.cutoffDate < now
       /\ StartPurge(FALSE, 0, 1)
    \/ PurgeDelete
    \/ PurgePause
    \/ purge.pc \in {"idle", "done"} /\ Day

SpecRetention == Init /\ [][NextRetention]_vars

\* ------------------------------------------------------------ properties
LiveUrls == {u \in UrlIds : urls[u].isActive /\ ~urls[u].isExpired}

\* recordClick has returned a result for request p.
Succeeded(p) == proc[p].result = "ok"

\* The requests that entered recordClick for URL u.
IngestionsOf(u) == {p \in Procs : proc[p].pc # "idle" /\ proc[p].urlId = u}

\* The stored events of URL u.
EventsOf(u) == {i \in 1..Len(clicks) : clicks[i].urlId = u}

\* C1: when N concurrent ingestions against one URL have all completed
\* successfully, the URL's clickCount has grown (from 0) by exactly N.
C1_NoIncrementLost ==
    \A u \in LiveUrls :
        (\A p \in IngestionsOf(u) : Succeeded(p))
            => urls[u].clickCount = Cardinality(IngestionsOf(u))

\* The ingestions of URL u have all returned a result.
AllSucceeded(u) == \A p \in IngestionsOf(u) : Succeeded(p)

\* The stored events of URL u that are flagged unique.
UniqueEventsOf(u) == {i \in EventsOf(u) : clicks[i].isUnique}

\* The distinct normalized IP addresses among the stored events of URL u.
DistinctIpsOf(u) == {clicks[i].ipAddress : i \in EventsOf(u)}

\* The event request p has stored.
ClickOf(p) == clicks[CHOOSE i \in 1..Len(clicks) : clicks[i].id = p]

\* C2 as stated: when N concurrent ingestions against one URL (no events,
\* zero counters before) have all completed, the URL's uniqueClicks equals
\* the number of distinct normalized IPs among them.
C2_UniqueEqualsDistinctIps ==
    \A u \in LiveUrls :
        AllSucceeded(u) => urls[u].uniqueClicks = Cardinality(DistinctIpsOf(u))

\* C2 amended: the URL's uniqueClicks counts stored events flagged isUnique:
\* it never exceeds their number, and every applied increment raises it by
\* one exactly when the event of that ingestion is flagged isUnique.  (Two
\* concurrent first clicks from one IP are both flagged, so the counter can
\* exceed the number of distinct IPs.)
C2_UniqueCountsFlaggedEvents ==
    [][\A u \in UrlIds :
          /\ urls'[u].uniqueClicks <= Cardinality(UniqueEventsOf(u))'
          /\ urls'[u] # urls[u] =>
                \E p \in Procs :
                    /\ proc[p].pc = "stats" /\ proc'[p].pc # "stats"
                    /\ proc[p].urlId = u
                    /\ urls'[u].uniqueClicks =
                          urls[u].uniqueClicks + IF ClickOf(p).isUnique THEN 1 ELSE 0]_vars

\* Two ingestions from one IP against one URL have completed and both were
\* counted as unique.
C2_Witness ==
    \E u \in LiveUrls :
        /\ Cardinality(IngestionsOf(u)) >= 2
        /\ AllSucceeded(u)
        /\ Cardinality(DistinctIpsOf(u)) = 1
        /\ urls[u].uniqueClicks = 2

\* Events i and j are of the same (urlId, normalized IP) pair.
SamePair(i, j) ==
    clicks[i].urlId = clicks[j].urlId /\ clicks[i].ipAddress = clicks[j].ipAddress

\* C3 as stated: with ingestions running one after another, for every
\* (urlId, normalized IP) pair exactly the first stored event is flagged
\* isUnique and every later one is not.
C3_ExactlyFirstUnique ==
    \A i \in 1..Len(clicks) :
        clicks[i].isUnique = ~ \E j \in 1..(i - 1) : SamePair(i, j)

\* C3 amended: with ingestions running one after another, an event is stored
\* with isUnique = true exactly when no event of its (urlId, normalized IP)
\* pair is stored yet and its uniqueness lookup answered; every later event
\* of the pair is stored with isUnique = false, and so is the first when its
\* lookup failed.
C3_FirstUniqueUnlessLookupFailed ==
    [][\A p \in Procs :
          (proc[p].pc = "save" /\ proc'[p].pc = "stats") =>
              LET e == clicks'[Len(clicks')]
              IN  e.isUnique =
                      /\ ~proc[p].uniqueFailed
                      /\ ~ \E i \in 1..Len(clicks) :
                              /\ clicks[i].urlId = e.urlId
                              /\ clicks[i].ipAddress = e.ipAddress]_vars

\* Two events of one pair are stored, the first flagged unique, the second not.
C3_Witness ==
    /\ Len(clicks) = 2
    /\ SamePair(1, 2)
    /\ clicks[1].isUnique
    /\ ~clicks[2].isUnique

\* C4: for every URL uniqueClicks <= clickCount in every reachable state,
\* and no step decreases either counter.
C4_CountersOrderedAndMonotonic ==
    [][\A u \in UrlIds :
          /\ urls[u].uniqueClicks <= urls[u].clickCount
          /\ urls'[u].uniqueClicks <= urls'[u].clickCount
          /\ urls'[u].clickCount >= urls[u].clickCount
          /\ urls'[u].uniqueClicks >= urls[u].uniqueClicks]_vars

\* A URL has counted two clicks, one of them unique.
C4_Witness ==
    \E u \in UrlIds : urls[u].clickCount = 2 /\ urls[u].uniqueClicks = 1

\* The URL with this id is absent, inactive or expired.
Unusable(u) == u \notin UrlIds \/ ~urls[u].isActive \/ urls[u].isExpired

\* C5: recordClick for a URL id that is absent, inactive or expired fails in
\* all three cases, and at the URL check: the request ends there with an
\* error and the step stores no event and changes no URL and no owner total.
C5_UnusableUrlFailsBeforeAnyWrite ==
    [][\A p \in Procs :
          (proc[p].pc = "find" /\ proc'[p] # proc[p] /\ Unusable(proc[p].urlId)) =>
              /\ proc'[p].pc = "done"
              /\ proc'[p].result = "error"
              /\ UNCHANGED <<urls, users, clicks>>]_vars

\* recordClick has failed for an absent URL id and for an expired URL, and
\* nothing has been stored or counted.
C5_Witness ==
    /\ \E p \in Procs : proc[p].urlId = "z" /\ proc[p].result = "error"
    /\ \E p \in Procs : proc[p].urlId = "d" /\ proc[p].result = "error"
    /\ clicks = <<>>
    /\ urls = InitUrls
    /\ users = [o \in UserIds |-> 0]

\* C6: when click.save() fails (the store fails, or validation rejects an
\* over-long user agent or referrer) recordClick reports the failure, no
\* event is stored, and the URLs and the owner totals are left unchanged; the
\* request ends there.
C6_SaveFailureLeavesNoTrace ==
    [][\A p \in Procs :
          (proc[p].pc = "save" /\ proc'[p].pc # "save") =>
              /\ (clicks' = clicks) <=> (proc'[p].result = "error")
              /\ (clicks' = clicks) =>
                    /\ proc'[p].pc = "done"
                    /\ UNCHANGED <<urls, users>>]_vars

\* One save was rejected by validation and another by the store; neither
\* request has an event.
C6_Witness ==
    /\ \E p \in Procs : proc[p].saveFailed /\ proc[p].message = "validation"
    /\ \E p \in Procs : proc[p].saveFailed /\ proc[p].message = "store"
    /\ clicks = <<>>

\* C7: recordClick never returns a result for an ingestion whose counter
\* increment failed after the event was stored.
C7_IncrementFailurePropagates ==
    \A p \in Procs : proc[p].stats = "failed" => ~Succeeded(p)

\* C8: the analytics a successful recordClick returns equal the URL's stored
\* clickCount and uniqueClicks right after this event's own increment.
C8_ReturnedCountersAreStored ==
    \A p \in Procs :
        (Succeeded(p) /\ proc[p].stats = "applied") =>
            proc[p].analytics = proc[p].stored

\* C9: when the statistics of a click's broadcast are about to be computed,
\* the click's event is stored with its derived facts and its counter
\* increment has been applied.
C9_BroadcastAfterWriteAndIncrement ==
    \A p \in Procs :
        proc[p].pc = "immediate" =>
            /\ \E i \in 1..Len(clicks) : clicks[i].id = p /\ ~clicks[i].isNew
            /\ proc[p].stats = "applied"

\* C10: the deferred task of handleRedirect starts only once the redirect
\* has been answered; when it ends, by its emits or by a failure, the
\* response is what it was, the task is over (it does not run again) and the
\* stored events, URLs and owner totals are unchanged; a failure emits
\* nothing.
C10_BroadcastIsDeferredAndBestEffort ==
    [][\A p \in Procs :
          /\ proc'[p].pc = "immediate" => proc'[p].response = 302
          /\ (proc[p].pc = "immediate" /\ proc'[p] # proc[p]) =>
                /\ proc'[p].pc = "done"
                /\ proc'[p].broadcast \in {"sent", "failed"}
                /\ proc'[p].response = proc[p].response
                /\ proc'[p].result = proc[p].result
                /\ UNCHANGED <<urls, users, clicks>>
                /\ proc'[p].broadcast = "failed" => emitted' = NoMessage
          /\ proc[p].pc = "done" => proc'[p] = proc[p]]_vars

\* A deferred task has failed after its request was redirected.
C10_Witness ==
    \E p \in Procs :
        /\ proc[p].broadcast = "failed"
        /\ proc[p].pc = "done"
        /\ proc[p].response = 302

\* The request is over: no step of it is left to run.
Over(p) == proc[p].pc = "done"

\* C11: every click that was ingested successfully, through GET /:shortCode
\* or through GET /:shortCode/track, has had its statistics recomputed and
\* published (or the recomputation has failed) by the time its request is
\* over.
C11_EveryIngestedClickIsBroadcast ==
    \A p \in Procs :
        (Over(p) /\ Succeeded(p)) => proc[p].broadcast \in {"sent", "failed"}

\* A broadcast has just been published.
Published == emitted.room # NULL

\* C12: a connected client whose last request on the global real-time topic
\* was a subscribe receives the global statistics of every broadcast
\* published after a click.
C12_GlobalSubscribersReceiveGlobal ==
    Published =>
        \A s \in Sockets :
            (sockets[s].connected /\ RealTimeRoom \in sockets[s].asked)
                => DeliveredGlobal(s)

\* The rooms of socket s that a step changes.
RoomsChanged(s) ==
    (sockets[s].rooms \ sockets'[s].rooms) \cup (sockets'[s].rooms \ sockets[s].rooms)

\* C13: the update published for short code S reaches a client exactly when
\* the client's last request on topic url:S was a subscribe; a subscribe or
\* unsubscribe changes the client's membership in one topic only and no
\* other client's membership.
C13_UpdateReachesExactlyTheMembers ==
    [][\A s \in Sockets :
          /\ Published' =>
                (DeliveredUpdate(s)' <=> UrlTopic(emitted'.room) \in sockets'[s].asked)
          /\ (sockets[s].connected /\ sockets'[s].connected) =>
                Cardinality(RoomsChanged(s)) <= 1
          /\ sockets'[s] # sockets[s] =>
                \A o \in Sockets \ {s} : sockets'[o] = sockets[o]]_vars

\* An update for b is published: it reaches a client that is in url:a and
\* url:b, and not a client that is in url:a only.
C13_Witness ==
    /\ Published
    /\ \E s, o \in Sockets :
          /\ sockets[s].rooms = {UrlRoom("a"), UrlRoom("b")}
          /\ DeliveredUpdate(s)
          /\ sockets[o].rooms = {UrlRoom("a")}
          /\ ~DeliveredUpdate(o)

\* C14: a disconnect takes the client out of every room and leaves the
\* other clients as they are; nothing published afterwards reaches it.
C14_DisconnectLeavesEveryTopic ==
    [][\A s \in Sockets :
          /\ (sockets[s].connected /\ ~sockets'[s].connected) =>
                /\ sockets'[s].rooms = {}
                /\ \A o \in Sockets \ {s} : sockets'[o] = sockets[o]
          /\ ~sockets'[s].connected =>
                ~DeliveredUpdate(s)' /\ ~DeliveredGlobal(s)']_vars

\* An update for b is published after a client that was in url:a and url:b
\* has disconnected: it reaches the other client, which is in url:b.
C14_Witness ==
    /\ Published
    /\ \E s, o \in Sockets :
          /\ ~sockets[s].connected
          /\ sockets[s].left = {UrlRoom("a"), UrlRoom("b")}
          /\ ~DeliveredUpdate(s)
          /\ DeliveredUpdate(o)

\* The messages of the errors recordClick throws for a URL it finds absent,
\* inactive or expired.
UrlErrors == {"URL not found or inactive", "URL has expired"}

\* Redirect request p is over, and a step of it found its URL absent,
\* inactive or expired: the handler's lookup, or the checks of recordClick.
FoundUnusable(p) ==
    /\ Over(p) /\ IsRedirect(proc[p])
    /\ proc[p].response = 404 \/ proc[p].message \in UrlErrors

\* C15: a redirect request that finds its URL absent, inactive or expired,
\* at whichever step, is answered 404, and no event is stored for it.
C15_UnusableUrlAnswers404 ==
    \A p \in Procs :
        FoundUnusable(p) =>
            /\ proc[p].response = 404
            /\ \A i \in 1..Len(clicks) : clicks[i].id # p

\* C16: for a redirect request, the 302 is sent only once the request's
\* event is stored and its counter increment applied; a redirect response has
\* exactly one stored event; a failed ingestion is answered 500.
C16_RedirectAfterEventAndIncrement ==
    \A p \in Procs :
        (proc[p].pc \in {"immediate", "done"} /\ IsRedirect(proc[p])) =>
            /\ proc[p].pc = "immediate" =>
                  proc[p].response = 302 /\ proc[p].stats = "applied"
            /\ proc[p].response = 302 =>
                  Cardinality({i \in 1..Len(clicks) : clicks[i].id = p}) = 1
            /\ proc[p].result = "error" => proc[p].response = 500

\* The retention horizon of the purge that is running or has run: the time
\* it started (the clock stands still while it runs) minus the retention
\* period.
Horizon(run) == now - run.retentionDays * MinutesPerDay

\* The events of a store that are strictly older than a time.
StrictlyOlder(store, time) == {i \in 1..Len(store) : store[i].clickedAt < time}

\* C17: no step of a dry run changes the stored events or a URL; the count
\* a dry run reports is the number of stored events strictly older than now
\* minus the retention period, and the store is then as it was at the start.
C17_DryRunCountsAndChangesNothing ==
    [][(purge'.pc # "idle" /\ purge'.dryRun /\ purge' # purge) =>
          /\ clicks' = clicks /\ urls' = urls
          /\ purge'.cutoffDate = Horizon(purge')
          /\ (purge'.pc = "done" /\ purge'.result = "ok") =>
                /\ purge'.recordsToDelete =
                      Cardinality(StrictlyOlder(clicks', Horizon(purge')))
                /\ clicks' = purge'.before]_vars

\* A dry run has reported 1 of 2 stored events: one is a day old and older
\* than the horizon, the other is at the horizon.
C17_Witness ==
    /\ purge.pc = "done" /\ purge.dryRun /\ purge.result = "ok"
    /\ purge.recordsToDelete = 1
    /\ Len(clicks) = 2
    /\ \E i \in 1..Len(clicks) : clicks[i].clickedAt = purge.cutoffDate

\* C18: when a purge that is no dry run reports success, the store holds
\* exactly the events it held at the start that are not strictly older than
\* the horizon, in their order; deletedCount is the count a dry run reports
\* for the store at the start.
C18_PurgeRemovesExactlyTheOlderEvents ==
    [][(purge.pc = "delete" /\ purge'.pc = "done" /\ purge'.result = "ok") =>
          LET before == purge'.before
              gone == StrictlyOlder(before, Horizon(purge'))
              kept == (1..Len(before)) \ gone
          IN  /\ {clicks'[j] : j \in 1..Len(clicks')} = {before[i] : i \in kept}
              /\ Len(clicks') = Cardinality(kept)
              /\ \A j, k \in 1..Len(clicks') :
                    j < k => \E i, l \in kept :
                        i < l /\ before[i] = clicks'[j] /\ before[l] = clicks'[k]
              /\ StrictlyOlder(clicks', Horizon(purge')) = {}
              /\ purge'.totalDeleted = Cardinality(gone)
              /\ purge'.totalDeleted = CountOlder(before, purge'.cutoffDate)]_vars

\* A purge has removed 1 of 2 stored events; the one it kept is at the
\* horizon.
C18_Witness ==
    /\ purge.pc = "done" /\ ~purge.dryRun /\ purge.result = "ok"
    /\ purge.totalDeleted = 1
    /\ Len(purge.before) = 2
    /\ Len(clicks) = 1 /\ clicks[1].clickedAt = purge.cutoffDate

\* C19: a delete step of a purge removes at most batchSize events, and when
\* more than batchSize events are older than the horizon a pause and another
\* delete step follow.
C19_EveryBatchIsBounded ==
    [][purge.pc = "delete" =>
          /\ Len(clicks) - Len(clicks') <= purge.batchSize
          /\ CountOlder(clicks, purge.cutoffDate) > purge.batchSize =>
                purge'.pc = "pause" \/ purge'.result = "error"]_vars

\* C20: every step leaves each stored event as it is, with its IP address,
\* timestamp and derived facts, or, in a delete step of a purge, removes it;
\* a stored event is not new, and the pre-save hooks leave it as it is.
C20_StoredEventsNeverChange ==
    [][/\ \A i \in 1..Len(clicks) :
             \/ \E j \in 1..Len(clicks') : clicks'[j] = clicks[i]
             \/ /\ purge.pc = "delete"
                /\ \A j \in 1..Len(clicks') : clicks'[j].id # clicks[i].id
       /\ \A j \in 1..Len(clicks') :
             /\ ~clicks'[j].isNew
             /\ PreSaveBot(PreSaveLocation(clicks'[j])) = clicks'[j]]_vars

\* A purge has removed the event of request 1; the event of request 2, stored
\* a day later from the same address and broadcast, is as the purge found it.
C20_Witness ==
    /\ purge.pc = "done" /\ ~purge.dryRun /\ purge.result = "ok"
    /\ Len(purge.before) = 2
    /\ proc[2].broadcast = "sent"
    /\ \A j \in 1..Len(clicks) : clicks[j].id # 1
    /\ \E j \in 1..Len(clicks) :
          /\ clicks[j].id = 2 /\ clicks[j] = purge.before[2]
          /\ clicks[j].ipAddress = purge.before[1].ipAddress

\* The candidates of a call of the normalizer in their order: the direct IP,
\* cf-connecting-ip, x-real-ip, the pick from x-forwarded-for, x-client-ip,
\* and the remaining headers.
CandidatesOf(call) ==
    << call.ip, call.headers["cf-connecting-ip"], call.headers["x-real-ip"],
       ExtractFromForwardedFor(call.headers["x-forwarded-for"]),
       call.headers["x-client-ip"], call.headers["x-forwarded"],
       call.headers["forwarded-for"], call.headers["forwarded"] >>

\* The candidate with the prefix ::ffff: stripped and ::1 and localhost
\* mapped to 127.0.0.1.
Stripped(c) ==
    LET a == IF Len(c) >= 7 /\ SubSeq(c, 1, 7) = MappedPrefix
             THEN SubSeq(c, 8, Len(c)) ELSE c
    IN  IF a \in {Loopback6, Localhost} THEN Loopback4 ELSE a

\* C21: the normalizer returns a valid IPv4 direct IP unchanged, 127.0.0.1
\* for ::1 and for localhost; its result is always a valid IPv4 address: the
\* first present candidate, in the order of the sources, that validates
\* after stripping and mapping, and 127.0.0.1 when none does.
C21_NormalizerReturnsFirstValidCandidate ==
    query.op = "normalize" =>
        LET c == CandidatesOf(query)
            ok == {i \in 1..Len(c) : Len(c[i]) > 0 /\ IsValidIPv4(Stripped(c[i]))}
        IN  /\ IsValidIPv4(query.ip) => query.result = query.ip
            /\ query.ip \in {Loopback6, Localhost} => query.result = Loopback4
            /\ IsValidIPv4(query.result)
            /\ ok = {} => query.result = Loopback4
            /\ ok # {} =>
                  \E i \in ok : /\ \A j \in ok : i <= j
                                /\ query.result = Stripped(c[i])

\* The direct IP is no address and cf-connecting-ip is absent; the chain of
\* x-forwarded-for starts with a private address, and its public entry is
\* returned although x-client-ip holds a valid address too.
C21_Witness ==
    /\ query.op = "normalize"
    /\ query.ip = Garbage
    /\ query.headers["cf-connecting-ip"] = NoString
    /\ query.headers["x-forwarded-for"] = PrivateIp \o <<",", " ">> \o OtherIp
    /\ query.headers["x-client-ip"] = PublicIp
    /\ query.result = OtherIp

\* C22: a redirect request (GET) for a live URL whose inputs pass the
\* schema, served while no call to the store fails, is answered 302 with its
\* event stored and the counter of its URL incremented, whatever the
\* enrichment steps make of its IP address, User-Agent and referrer.
C22_EnrichmentNeverAbortsIngestion ==
    \A p \in Procs :
        (/\ Over(p) /\ IsRedirect(proc[p])
         /\ Requests[proc[p].req].method = "GET"
         /\ Requests[proc[p].req].target \in LiveUrls
         /\ StrLen(Requests[proc[p].req].userAgent) <= MaxUserAgentLength
         /\ Requests[proc[p].req].referrer.len <= MaxReferrerLength
         /\ faults = 0) =>
            /\ proc[p].response = 302
            /\ \E i \in 1..Len(clicks) : clicks[i].id = p
            /\ urls[Requests[proc[p].req].target].clickCount >= 1

\* The stored events of the window of the last query.
InWindow == {i \in 1..Len(clicks) : clicks[i].clickedAt >= now - query.minutes}

\* A real-time query has just answered (the step before the present state
\* was the query: the store and the clock are as it saw them).
Answered == query.op = "realTimeStats" /\ query.result = "ok"

\* C23 as stated: recentClicks is the number of events of the last N
\* minutes and activeUrls the number of distinct URLs among them.
C23_RecentClicksCountsAllEvents ==
    [][Answered' /\ query' # query =>
          /\ query'.statistics.recentClicks = Cardinality(InWindow')
          /\ query'.statistics.activeUrls =
                Cardinality({clicks'[i].urlId : i \in InWindow'})]_vars

\* C23, amended: recentClicks is the number of events of the last N minutes
\* that are not flagged as bots and activeUrls the number of distinct URLs
\* among those; when there is none, every field is zero.
C23_RecentClicksCountsHumanEvents ==
    [][Answered' /\ query' # query =>
          LET human == {i \in InWindow' : ~clicks'[i].isBot}
              stats == query'.statistics
          IN  /\ stats.recentClicks = Cardinality(human)
              /\ stats.activeUrls = Cardinality({clicks'[i].urlId : i \in human})
              /\ human = {} =>
                    /\ stats.recentClicks = 0 /\ stats.activeUrls = 0
                    /\ stats.activeCountries = 0
                    /\ stats.avgClicksPerMinute[1] = 0]_vars

\* Two events of URL a are stored, one of them a day old or more: the hour's
\* window reports one click and one URL.
C23_Witness ==
    /\ Answered /\ query.minutes = OneHour
    /\ Len(clicks) = 2
    /\ \A i \in 1..Len(clicks) : clicks[i].urlId = "a" /\ ~clicks[i].isBot
    /\ Cardinality(InWindow) = 1
    /\ query.statistics.recentClicks = 1 /\ query.statistics.activeUrls = 1

\* The URLs with a stored event of the last hour.
ClickedUrls == {clicks[i].urlId : i \in AllClicksSince(now - OneHour)}

\* C24: in the global payload of a broadcast published while no call to the
\* store has failed, statistics.activeUrls is the number of URLs clicked in
\* the last 60 minutes and statistics.recentClicks the number of events of
\* that window.
C24_ActiveUrlsCountsEveryActiveUrl ==
    (Published /\ faults = 0) =>
        /\ emitted.global.activeUrls = Cardinality(ClickedUrls)
        /\ emitted.global.recentClicks =
              Cardinality(AllClicksSince(now - OneHour))

Lowered(s) == [i \in 1..Len(s) |-> ToLower(s[i])]

MatchesBotList(text) ==
    \E pat \in BotPatterns : \E i \in 1..Len(text) :
        /\ i + Len(pat) - 1 <= Len(text)
        /\ SubSeq(Lowered(text), i, i + Len(pat) - 1) = pat

C26_IsBotIffUserAgentMatchesList ==
    \A i \in 1..Len(clicks) :
        /\ clicks[i].isBot = MatchesBotList(clicks[i].userAgent.text)
        /\ clicks[i].userAgent.text = Googlebot => clicks[i].isBot
        /\ clicks[i].userAgent.text \in {Mozilla, NoString} => ~clicks[i].isBot

C26_Witness ==
    /\ \E i \in 1..Len(clicks) :
          clicks[i].userAgent.text = Googlebot /\ clicks[i].isBot
    /\ \E i \in 1..Len(clicks) :
          clicks[i].userAgent.text = Mozilla /\ ~clicks[i].isBot

C26_WitnessNoUserAgent ==
    \E i \in 1..Len(clicks) : clicks[i].userAgent = NoText /\ ~clicks[i].isBot

\* Request p has persisted its event (which a purge may have removed since):
\* it is past click.save(), or recordClick has returned.
Persisted(p) == proc[p].ts # Never \/ proc[p].result = "ok"

\* The normalized IP address request p was ingested under.
ClientIpOf(p) == NormalizeIpAddress(HandlerIp(Requests[proc[p].req]), NoHeaders)

\* The distinct normalized IP addresses that ever clicked URL u.
EverIpsOf(u) == {ClientIpOf(p) : p \in IngestionsOf(u)}

\* No event of URL u has been removed.
NothingRemovedOf(u) ==
    \A p \in Procs : Persisted(p) /\ proc[p].urlId = u =>
        \E i \in 1..Len(clicks) : clicks[i].id = p

\* The stored events of each (urlId, normalized IP) pair have at most one
\* flagged unique among them.
OneStoredUniquePerPair(u) ==
    \A i, j \in UniqueEventsOf(u) : clicks[i].ipAddress = clicks[j].ipAddress => i = j

\* C27 as stated: whatever the interleaving of ingestions and purges, at
\* most one event per (urlId, normalized IP) pair is ever persisted with
\* isUnique = true, and so a URL's uniqueClicks never exceeds the number of
\* distinct normalized IPs that ever clicked it.  (What was ever persisted is
\* read from the counter: every increment of uniqueClicks is for one event
\* persisted with isUnique = true.)
C27_OneUniqueEventPerPairEver ==
    \A u \in UrlIds :
        /\ OneStoredUniquePerPair(u)
        /\ urls[u].uniqueClicks <= Cardinality(EverIpsOf(u))

\* C27 amended: with ingestions started one after the other and purge steps
\* anywhere among theirs, at most one STORED event per (urlId, normalized IP)
\* pair is flagged isUnique at any moment, and as long as no event of the URL
\* has been removed its uniqueClicks does not exceed the number of distinct
\* normalized IPs that clicked it.  (Once a purge has removed the events of
\* a pair its next click is flagged unique again.)
C27_OneStoredUniqueEventPerPair ==
    \A u \in UrlIds :
        /\ OneStoredUniquePerPair(u)
        /\ NothingRemovedOf(u) => urls[u].uniqueClicks <= Cardinality(EverIpsOf(u))

\* Two clicks of one pair were ingested with the steps of a purge that
\* removed nothing among theirs: both events are stored, one flagged unique.
C27_Witness ==
    /\ purge.pc = "done" /\ purge.result = "ok" /\ purge.totalDeleted = 0
    /\ \E u \in LiveUrls :
          /\ Cardinality(EventsOf(u)) = 2
          /\ Cardinality(DistinctIpsOf(u)) = 1
          /\ Cardinality(UniqueEventsOf(u)) = 1
          /\ urls[u].uniqueClicks = 1
          /\ purge.before # <<>> /\ Len(purge.before) < Len(clicks)

\* A purge removed the first event of a pair and the next click of the pair
\* was flagged unique again.
C27_UniqueAgainAfterPurge ==
    \E u \in LiveUrls :
        /\ ~NothingRemovedOf(u)
        /\ Cardinality(UniqueEventsOf(u)) = 1
        /\ Cardinality(EverIpsOf(u)) = 1
        /\ urls[u].uniqueClicks = 2

\* No ingestion is in flight.
Quiescent == \A p \in Procs : ~InRecordClick(p)

\* C28 as stated: in every quiescent state reached without a purge, for a
\* URL created with zero counters, clickCount equals the number of persisted
\* events of the URL and uniqueClicks the number of those flagged isUnique.
C28_CountersEqualStoredEvents ==
    Quiescent =>
        \A u \in UrlIds :
            /\ urls[u].clickCount = Cardinality(EventsOf(u))
            /\ urls[u].uniqueClicks = Cardinality(UniqueEventsOf(u))

\* C28 amended: in every such state the counters count the persisted events
\* whose counter update was applied: clickCount and uniqueClicks never exceed
\* the number of events of the URL and of those flagged isUnique, they fall
\* short of them by no more than the number of store calls that failed, and
\* equal them when none did.
C28_CountersCountAppliedUpdates ==
    Quiescent =>
        \A u \in UrlIds :
            /\ Cardinality(EventsOf(u)) - urls[u].clickCount \in 0..faults
            /\ Cardinality(UniqueEventsOf(u)) - urls[u].uniqueClicks \in 0..faults
            /\ Cardinality(UniqueEventsOf(u)) - urls[u].uniqueClicks
                   <= Cardinality(EventsOf(u)) - urls[u].clickCount

\* Two ingestions of one URL are over, both events are stored and both were
\* counted.
C28_Witness ==
    /\ Quiescent
    /\ faults = 0
    /\ \E u \in LiveUrls :
          /\ Cardinality(EventsOf(u)) = 2
          /\ urls[u].clickCount = 2
          /\ urls[u].uniqueClicks = Cardinality(UniqueEventsOf(u))
          /\ urls[u].uniqueClicks >= 1

\* An ingestion is over and its event is stored, but its counter update
\* failed: the counter is one short.
C28_WitnessShort ==
    /\ Quiescent
    /\ \E u \in LiveUrls :
          Cardinality(EventsOf(u)) = 1 /\ urls[u].clickCount = 0

\* C29: a URL's lastClickedAt never moves backward: whatever the
\* interleaving of concurrent ingestions of the URL, each applied counter
\* update sets lastClickedAt to a value greater than or equal to the one it
\* replaces.
C29_LastClickedAtNeverMovesBackward ==
    [][\A u \in UrlIds : urls'[u].lastClickedAt >= urls[u].lastClickedAt]_vars

\* C30: a purge that is not a dry run comes to its end when the store does
\* not fail: a delete step that removes fewer than batchSize events is the
\* last one, and with K events older than the horizon when the purge starts
\* (none is inserted meanwhile) no more than K \div batchSize + 1 delete
\* steps are made.
C30_PurgeStopsWithinTheBound ==
    [][(purge.pc = "delete" /\ purge' # purge /\ faults' = faults) =>
          LET removed == Len(clicks) - Len(clicks')
              K == CountOlder(purge.before, purge.cutoffDate)
          IN  /\ purge'.rounds = purge.rounds + 1
              /\ removed < purge.batchSize =>
                    purge'.pc = "done" /\ purge'.result = "ok"
              /\ purge'.pc \in {"pause", "done"}
              /\ purge'.rounds <= (K \div purge.batchSize) + 1]_vars

\* A purge found exactly batchSize old events: it made a second delete step,
\* which removed nothing, and ended.
C30_Witness ==
    /\ purge.pc = "done" /\ purge.result = "ok"
    /\ purge.rounds = 2
    /\ purge.totalDeleted = purge.batchSize
    /\ CountOlder(purge.before, purge.cutoffDate) = purge.batchSize

====
